---- MODULE Spec2Model ----
(***************************************************************************)
(* HVAC AI Campaign Analytics API (src/main.py): the document store, the   *)
(* seed step and the HTTP handlers as a state machine.                     *)
(*                                                                         *)
(* Abstractions: money and float fields are exact rationals (integers, or  *)
(* reduced fractions <<num, den>>); the clock has a resolution of one      *)
(* minute and date.today() is the UTC day of that clock; a text field is a *)
(* TLA+ string, except the strings the code orders or parses (ISO dates,   *)
(* ISO datetimes, ObjectId hex strings), which are sequences of characters.*)
(***************************************************************************)
EXTENDS Integers, Sequences, FiniteSets, TLC

\* ------------------------------------------------------------------ bounds

\* The clock advances by at most this many minutes over a behaviour.
MaxTicks == 1
\* At most this many write requests (POST, PATCH) reach the store in a behaviour.
MaxWrites == 1
\* The process instances that start cold against the same store.
NumProcs == 2

\* ------------------------------------------------------- program constants

SEED_DAYS == 14
MinutesPerDay == 24 * 60

\* ---------------------------------------------------------------- helpers

Min(a, b) == IF a <= b THEN a ELSE b
Max(a, b) == IF a >= b THEN a ELSE b

RECURSIVE Gcd(_, _)
Gcd(a, b) == IF b = 0 THEN a ELSE Gcd(b, a % b)

Abs(a) == IF a < 0 THEN -a ELSE a

\* Python's true division a / b (b # 0) as a reduced fraction, den > 0.
Div(a, b) ==
    LET g == Gcd(Abs(a), Abs(b))
        s == IF b < 0 THEN -1 ELSE 1
    IN  <<s * (a \div g), s * (b \div g)>>

\* int(x) of a non-negative product n * p / q: truncation.
Trunc(n, p, q) == (n * p) \div q

RECURSIVE SumSeq(_)
SumSeq(s) == IF s = <<>> THEN 0 ELSE Head(s) + SumSeq(Tail(s))

\* dict.get(key, default)
Get(d, key, default) == IF key \in DOMAIN d THEN d[key] ELSE default

\* --------------------------------------------------- strings that are ordered

\* Code points of the characters of ISO dates, ISO datetimes and hex ids.
CharCode(c) ==
    CASE c = "+" -> 43 [] c = "-" -> 45 [] c = ":" -> 58 [] c = "T" -> 84
      [] c = "0" -> 48 [] c = "1" -> 49 [] c = "2" -> 50 [] c = "3" -> 51
      [] c = "4" -> 52 [] c = "5" -> 53 [] c = "6" -> 54 [] c = "7" -> 55
      [] c = "8" -> 56 [] c = "9" -> 57
      [] c = "A" -> 65 [] c = "B" -> 66 [] c = "C" -> 67 [] c = "D" -> 68
      [] c = "E" -> 69 [] c = "F" -> 70
      [] c = "a" -> 97 [] c = "b" -> 98 [] c = "c" -> 99 [] c = "d" -> 100
      [] c = "e" -> 101 [] c = "f" -> 102
      [] OTHER -> 122

\* Python's str < str: lexicographic by code point, a proper prefix is less.
StrLess(s, t) ==
    LET n == Min(Len(s), Len(t))
        diff == {k \in 1..n : s[k] # t[k]}
    IN  IF diff = {} THEN Len(s) < Len(t)
        ELSE LET k == CHOOSE i \in diff : \A j \in diff : i <= j
             IN  CharCode(s[k]) < CharCode(t[k])

DigitChar(d) == <<"0", "1", "2", "3", "4", "5", "6", "7", "8", "9">>[d + 1]

\* '%0*d' % (width, n) for n >= 0
RECURSIVE ZeroPad(_, _)
ZeroPad(n, width) ==
    IF width = 0 THEN <<>>
    ELSE ZeroPad(n \div 10, width - 1) \o <<DigitChar(n % 10)>>

\* ------------------------------------------------------------- the calendar

\* datetime.date as its proleptic Gregorian ordinal (0001-01-01 is day 1).
IsLeap(y) == y % 4 = 0 /\ (y % 100 # 0 \/ y % 400 = 0)

DaysInMonth(y, m) ==
    IF m = 2 THEN (IF IsLeap(y) THEN 29 ELSE 28)
    ELSE IF m \in {4, 6, 9, 11} THEN 30 ELSE 31

RECURSIVE DaysBeforeMonth(_, _)
DaysBeforeMonth(y, m) ==
    IF m = 1 THEN 0 ELSE DaysBeforeMonth(y, m - 1) + DaysInMonth(y, m - 1)

DaysBeforeYear(y) ==
    LET p == y - 1 IN p * 365 + p \div 4 - p \div 100 + p \div 400

\* date(y, m, d).toordinal()
YmdToOrd(y, m, d) == DaysBeforeYear(y) + DaysBeforeMonth(y, m) + d

\* date.fromordinal(n) as <<year, month, day>>
OrdToYmd(n) ==
    LET n0 == n - 1
        n400 == n0 \div 146097
        r400 == n0 % 146097
        n100 == r400 \div 36524
        r100 == r400 % 36524
        n4 == r100 \div 1461
        r4 == r100 % 1461
        n1 == r4 \div 365
        r1 == r4 % 365
        year == n400 * 400 + 1 + n100 * 100 + n4 * 4 + n1
    IN  IF n1 = 4 \/ n100 = 4 THEN <<year - 1, 12, 31>>
        ELSE LET month == CHOOSE m \in 1..12 :
                     /\ DaysBeforeMonth(year, m) <= r1
                     /\ r1 < DaysBeforeMonth(year, m) + DaysInMonth(year, m)
             IN  <<year, month, r1 - DaysBeforeMonth(year, month) + 1>>

\* date.isoformat(): 'YYYY-MM-DD'
IsoFormat(n) ==
    LET ymd == OrdToYmd(n)
    IN  ZeroPad(ymd[1], 4) \o <<"-">> \o ZeroPad(ymd[2], 2) \o <<"-">> \o ZeroPad(ymd[3], 2)

\* datetime (UTC, whole minutes) as minutes since 0001-01-01T00:00 of day 0.
\* datetime.isoformat(): 'YYYY-MM-DDTHH:MM:SS+00:00'
DatetimeIso(t) ==
    IsoFormat(t \div MinutesPerDay) \o <<"T">>
        \o ZeroPad((t % MinutesPerDay) \div 60, 2) \o <<":">>
        \o ZeroPad(t % 60, 2) \o <<":", "0", "0", "+", "0", "0", ":", "0", "0">>

\* date.today() on a clock that reads t
Today(t) == t \div MinutesPerDay


\* ------------------------------------------------------------ ObjectId

\* A bson ObjectId is modelled by a natural number; str(oid) is its 24 hex digits.
HexChar(d) ==
    <<"0", "1", "2", "3", "4", "5", "6", "7", "8", "9", "a", "b", "c", "d", "e", "f">>[d + 1]

RECURSIVE ToHex(_, _)
ToHex(n, width) ==
    IF width = 0 THEN <<>>
    ELSE ToHex(n \div 16, width - 1) \o <<HexChar(n % 16)>>

\* str(ObjectId)
ObjectIdStr(oid) == ToHex(oid, 24)

HexValue(c) ==
    LET code == CharCode(c)
    IN  IF code >= 48 /\ code <= 57 THEN code - 48
        ELSE IF code >= 65 /\ code <= 70 THEN code - 55
        ELSE IF code >= 97 /\ code <= 102 THEN code - 87
        ELSE -1

RECURSIVE FromHex(_)
FromHex(s) ==
    IF s = <<>> THEN 0
    ELSE 16 * FromHex(SubSeq(s, 1, Len(s) - 1)) + HexValue(s[Len(s)])

InvalidId == -1

\* ObjectId(s): InvalidId stands for the InvalidId exception (s is not 24 hex digits).
ObjectId(s) ==
    IF Len(s) = 24 /\ \A k \in 1..24 : HexValue(s[k]) >= 0 THEN FromHex(s) ELSE InvalidId

\* ------------------------------------------------------------ seed documents

Channels == <<"inbound", "outbound">>
Stages == {"new", "engaged", "qualified", "booked", "completed"}

SeedLeads(i, channel) == 10 + (i % 5) * (IF channel = "inbound" THEN 1 ELSE 2)

SeedConversations(leads, channel) ==
    IF channel = "inbound" THEN Trunc(leads, 6, 10) ELSE Trunc(leads, 4, 10)

SeedBooked(conversations, channel) ==
    IF channel = "inbound" THEN Trunc(conversations, 45, 100)
    ELSE Trunc(conversations, 35, 100)

\* round() in place of int().
SeedCompleted_Rounded(booked) == (booked * 9 + 5) \div 10

SeedCompleted(booked) == Trunc(booked, 9, 10)

\* The ratio (revenue - cost) / cost guarded by cost > 0.
Roi(revenue, cost) == IF cost > 0 THEN Div(revenue - cost, cost) ELSE <<0, 1>>

\* The metric document of day index i and channel, for a seed run on day today.
SeedMetricDoc(i, channel, today) ==
    LET d == today - (13 - i)
        leads == SeedLeads(i, channel)
        conversations == SeedConversations(leads, channel)
        booked == SeedBooked(conversations, channel)
        completed == SeedCompleted(booked)
        aov == IF channel = "inbound" THEN 350 ELSE 420
        revenue == completed * aov
        cost == IF channel = "outbound" THEN 60 * leads ELSE 35 * leads
    IN  [channel |-> channel,
         date |-> IsoFormat(d),
         leads_generated |-> leads,
         calls_handled |-> leads + conversations,
         conversations |-> conversations,
         booked_jobs |-> booked,
         completed_jobs |-> completed,
         response_time_sec |-> IF channel = "inbound" THEN 18 ELSE 12,
         conversion_rate |-> Div(booked, Max(leads, 1)),
         appt_set_rate |-> Div(booked, Max(conversations, 1)),
         no_show_rate |-> <<1, 10>>,
         aov |-> aov,
         revenue |-> revenue,
         cost |-> cost,
         roi |-> Roi(revenue, cost),
         csat |-> IF channel = "inbound" THEN <<23, 5>> ELSE <<43, 10>>]

\* The loop with range(13).
SeedMetricDocs_OffByOne(today) ==
    [k \in 1..(2 * (SEED_DAYS - 1)) |->
        SeedMetricDoc((k - 1) \div 2, Channels[((k - 1) % 2) + 1], today)]

\* for i in range(14): for channel in ["inbound", "outbound"]: ...
SeedMetricDocs(today) ==
    [k \in 1..(2 * SEED_DAYS) |->
        SeedMetricDoc((k - 1) \div 2, Channels[((k - 1) % 2) + 1], today)]

demo_contacts ==
    <<[name |-> "Alex Johnson", phone |-> "+1 (555) 201-3344", channel |-> "inbound", stage |-> "new"],
      [name |-> "Brianna Lee", phone |-> "+1 (555) 448-9920", channel |-> "outbound", stage |-> "engaged"],
      [name |-> "Carlos Martinez", phone |-> "+1 (555) 773-1102", channel |-> "inbound", stage |-> "qualified"],
      [name |-> "Danielle Kim", phone |-> "+1 (555) 667-9088", channel |-> "outbound", stage |-> "booked"],
      [name |-> "Ethan Walker", phone |-> "+1 (555) 334-7855", channel |-> "inbound", stage |-> "completed"]>>

\* dc["created_at"] = now; dc["updated_at"] = now
SeedContactDocs(t) ==
    [k \in DOMAIN demo_contacts |->
        [name |-> demo_contacts[k].name, phone |-> demo_contacts[k].phone,
         channel |-> demo_contacts[k].channel, stage |-> demo_contacts[k].stage,
         created_at |-> t, updated_at |-> t]]

RecordingUrl == "https://file-examples.com/storage/fe1b0a8f03f6d0b8f4d1f9e/2017/11/file_example_MP3_700KB.mp3"

\* The five seed messages, attached to the first two inserted contacts.
SeedMessageDocs(t, inserted_ids) ==
    <<[contact_id |-> inserted_ids[1], type |-> "sms", direction |-> "inbound",
       timestamp |-> t - 50, text |-> "Hi, my AC stopped working today. Can you help?",
       created_at |-> t, updated_at |-> t],
      [contact_id |-> inserted_ids[1], type |-> "sms", direction |-> "outbound",
       timestamp |-> t - 48, text |-> "Absolutely. What time today works to send a tech?",
       created_at |-> t, updated_at |-> t],
      [contact_id |-> inserted_ids[1], type |-> "call", direction |-> "outbound",
       timestamp |-> t - 40, recording_url |-> RecordingUrl, duration_sec |-> 120,
       created_at |-> t, updated_at |-> t],
      [contact_id |-> inserted_ids[2], type |-> "sms", direction |-> "outbound",
       timestamp |-> t - 2 * 60,
       text |-> "We have a tune-up special this week if you'd like to book a slot.",
       created_at |-> t, updated_at |-> t],
      [contact_id |-> inserted_ids[2], type |-> "sms", direction |-> "inbound",
       timestamp |-> t - (60 + 45), text |-> "Yes please. Tomorrow afternoon?",
       created_at |-> t, updated_at |-> t]>>

\* ------------------------------------------------------------ the store

\* A collection is the sequence of its documents in insertion order.
\* insert_many in a loop: docs appended, document k given ObjectId first + k - 1.
InsertAll(coll, docs, first) ==
    coll \o [k \in DOMAIN docs |-> [f \in DOMAIN docs[k] \cup {"_id"} |->
                                       IF f = "_id" THEN first + k - 1 ELSE docs[k][f]]]

\* collection.find(query) for the one-field equality queries of the handlers.
Find(coll, field, value) == SelectSeq(coll, LAMBDA d : Get(d, field, "") = value)

\* A descending timestamp order (sort("timestamp", -1)).
TimestampLess_Descending(a, b) == a > b

\* The order of the values of a sort key: ISO date strings by code point,
\* datetimes by instant.
DateLess(a, b) == StrLess(a, b)
TimestampLess(a, b) == a < b

\* Stable insertion of d into s, already sorted by date.
RECURSIVE InsertByDate(_, _)
InsertByDate(d, s) ==
    IF s = <<>> THEN <<d>>
    ELSE IF DateLess(d.date, s[Len(s)].date)
         THEN InsertByDate(d, SubSeq(s, 1, Len(s) - 1)) \o <<s[Len(s)]>>
         ELSE s \o <<d>>

\* The handler without its docs.sort call.
SortByDate_Unsorted(s) == s

\* docs.sort(key=lambda d: d.get("date")): stable, ascending.
RECURSIVE SortByDate(_)
SortByDate(s) ==
    IF s = <<>> THEN <<>>
    ELSE InsertByDate(s[Len(s)], SortByDate(SubSeq(s, 1, Len(s) - 1)))

\* Stable insertion of m into s, already sorted by timestamp.
RECURSIVE InsertByTimestamp(_, _)
InsertByTimestamp(m, s) ==
    IF s = <<>> THEN <<m>>
    ELSE IF TimestampLess(m.timestamp, s[Len(s)].timestamp)
         THEN InsertByTimestamp(m, SubSeq(s, 1, Len(s) - 1)) \o <<s[Len(s)]>>
         ELSE s \o <<m>>

\* cursor.sort("timestamp", 1): ascending, ties in storage order.
RECURSIVE SortByTimestamp(_)
SortByTimestamp(s) ==
    IF s = <<>> THEN <<>>
    ELSE InsertByTimestamp(s[Len(s)], SortByTimestamp(SubSeq(s, 1, Len(s) - 1)))

\* ------------------------------------------------------------ state

Procs == 1..NumProcs

VARIABLES
    db,            \* TRUE when database.db is a connection, FALSE when it is None
    metrics,       \* db["campaignmetric"]
    contacts,      \* db["contact"]
    messages,      \* db["conversationmessage"]
    nextId,        \* the next ObjectId the driver generates
    now,           \* the last reading of the clock, in minutes
    writes,        \* write requests that reached the store so far
    pc,            \* per process instance: where it is in its life
    locals,        \* per process instance: the locals of a running seed_sample_data
    req,           \* the request handled last
    resp           \* its response

store == <<metrics, contacts, messages, nextId>>
vars == <<db, metrics, contacts, messages, nextId, now, writes, pc, locals, req, resp>>

\* The store as one value.
Store == [metrics |-> metrics, contacts |-> contacts, messages |-> messages, nextId |-> nextId]

\* The first clock reading: 2025-01-05T00:30 UTC, so that the seed window and the
\* seed messages cross a day, a month and a year boundary.
StartNow == YmdToOrd(2025, 1, 5) * MinutesPerDay + 30

\* A clock reading: the clock never runs backwards.
ClockReadings == now..Min(now + 1, StartNow + MaxTicks)

\* Optional[str]: <<>> is None, <<s>> is the string s.
None == <<>>
Some(x) == <<x>>
\* Python truthiness of an Optional[str]
Truthy(opt) == opt # None /\ opt[1] # ""

NoLocals == [saw_no_metrics |-> FALSE, saw_no_contacts |-> FALSE, now |-> 0, inserted_ids |-> <<>>]
NoRequest == [op |-> "none"]
NoResponse == [status |-> 0]

\* ------------------------------------------------------------ seed_sample_data

\* The metrics half without its count_documents guard.
SeedMetrics_NoGuard(st, today) ==
    [st EXCEPT !.metrics = InsertAll(st.metrics, SeedMetricDocs(today), st.nextId),
               !.nextId = st.nextId + 2 * SEED_DAYS]

\* The metrics half of seed_sample_data on store st, run on day today.
SeedMetrics(st, today) ==
    IF Len(st.metrics) = 0
    THEN [st EXCEPT !.metrics = InsertAll(st.metrics, SeedMetricDocs(today), st.nextId),
                    !.nextId = st.nextId + 2 * SEED_DAYS]
    ELSE st

\* The contacts and conversations half of seed_sample_data at clock reading t.
SeedContacts(st, t) ==
    IF Len(st.contacts) = 0
    THEN LET docs == SeedContactDocs(t)
             inserted_ids == [k \in DOMAIN docs |-> ObjectIdStr(st.nextId + k - 1)]
             msgs == SeedMessageDocs(t, inserted_ids)
         IN  [st EXCEPT !.contacts = InsertAll(st.contacts, docs, st.nextId),
                        !.messages = InsertAll(st.messages, msgs, st.nextId + Len(docs)),
                        !.nextId = st.nextId + Len(docs) + Len(msgs)]
    ELSE st

\* seed_sample_data without its "if db is None: return".
seed_sample_data_NoDbCheck(st, t) == SeedContacts(SeedMetrics(st, Today(t)), t)

\* seed_sample_data(), run without interruption at clock reading t.
seed_sample_data(st, t) ==
    IF ~db THEN st ELSE SeedContacts(SeedMetrics(st, Today(t)), t)

SetStore(st) ==
    /\ metrics' = st.metrics
    /\ contacts' = st.contacts
    /\ messages' = st.messages
    /\ nextId' = st.nextId

\* Importing main.py: the module-level seed_sample_data() call, after which the
\* process serves requests. A process may be restarted at any time.
Startup ==
    \E t \in ClockReadings :
        /\ now' = t
        /\ SetStore(seed_sample_data(Store, t))
        /\ pc' = [pc EXCEPT ![1] = "serving"]
        /\ req' = [op |-> "startup"]
        /\ resp' = NoResponse
        /\ UNCHANGED <<db, writes, locals>>

Serving == pc[1] = "serving"

\* ------------------------------------------------------------ metrics routes

SummaryFallback ==
    [period |-> "last_14_days",
     totals |-> [leads |-> 320, booked |-> 180, revenue |-> 64000, roi |-> <<31, 10>>],
     inbound |-> [leads |-> 170, booked |-> 100, revenue |-> 34000, roi |-> <<7, 2>>],
     outbound |-> [leads |-> 150, booked |-> 80, revenue |-> 30000, roi |-> <<27, 10>>]]

\* [d for d in docs if filter_channel is None or d.get("channel") == filter_channel]
AggFilter(docs, filter_channel) ==
    IF filter_channel = None THEN docs
    ELSE SelectSeq(docs, LAMBDA d : Get(d, "channel", "") = filter_channel[1])

Field(docs, f) == [k \in DOMAIN docs |-> Get(docs[k], f, 0)]

\* get_summary.agg
agg(docs, filter_channel) ==
    LET f == AggFilter(docs, filter_channel)
        leads == SumSeq(Field(f, "leads_generated"))
        booked == SumSeq(Field(f, "booked_jobs"))
        revenue == SumSeq(Field(f, "revenue"))
        cost == SumSeq(Field(f, "cost"))
    IN  [leads |-> leads, booked |-> booked, revenue |-> revenue, roi |-> Roi(revenue, cost)]

SummaryBody(docs) ==
    [period |-> "last_14_days",
     totals |-> agg(docs, None),
     inbound |-> agg(docs, Some("inbound")),
     outbound |-> agg(docs, Some("outbound"))]

\* GET /api/metrics/summary
get_summary ==
    /\ Serving
    /\ req' = [op |-> "get_summary"]
    /\ IF ~db
       THEN /\ resp' = [status |-> 200, body |-> SummaryFallback]
            /\ UNCHANGED <<store, now>>
       ELSE IF Len(metrics) = 0
            THEN \E t \in ClockReadings :
                    /\ now' = t
                    /\ SetStore(seed_sample_data(Store, t))
                    /\ resp' = [status |-> 200,
                                body |-> SummaryBody(seed_sample_data(Store, t).metrics)]
            ELSE /\ resp' = [status |-> 200, body |-> SummaryBody(metrics)]
                 /\ UNCHANGED <<store, now>>
    /\ UNCHANGED <<db, writes, pc, locals>>

TimeseriesFallback ==
    <<[date |-> IsoFormat(YmdToOrd(2024, 1, 1)), leads |-> 10, booked |-> 4, revenue |-> 1600],
      [date |-> IsoFormat(YmdToOrd(2024, 1, 2)), leads |-> 12, booked |-> 6, revenue |-> 2100]>>

\* channel or "all"
ChannelOrAll(channel) == IF Truthy(channel) THEN channel[1] ELSE "all"

\* db["campaignmetric"].find({"channel": channel} if channel else {})
TimeseriesQuery(coll, channel) ==
    IF Truthy(channel) THEN Find(coll, "channel", channel[1]) ELSE coll

Series(docs) ==
    [k \in DOMAIN docs |->
        [date |-> docs[k].date,
         leads |-> Get(docs[k], "leads_generated", 0),
         booked |-> Get(docs[k], "booked_jobs", 0),
         revenue |-> Get(docs[k], "revenue", 0)]]

\* The channel query parameters tried.
ChannelParams == {None, Some(""), Some("inbound"), Some("email")}

\* GET /api/metrics/timeseries?channel=
get_timeseries ==
    /\ Serving
    /\ \E channel \in ChannelParams :
        /\ req' = [op |-> "get_timeseries", channel |-> channel]
        /\ resp' = IF ~db
                   THEN [status |-> 200,
                         body |-> [channel |-> ChannelOrAll(channel), data |-> TimeseriesFallback]]
                   ELSE [status |-> 200,
                         body |-> [channel |-> ChannelOrAll(channel),
                                   data |-> Series(SortByDate(TimeseriesQuery(metrics, channel)))]]
    /\ UNCHANGED <<db, store, now, writes, pc, locals>>

\* database.create_document(collection, doc) on collection coll: the document gets
\* created_at and updated_at, is inserted, and its id is returned as a string.
CreateDocument(coll, doc, oid, t) ==
    InsertAll(coll, <<[f \in DOMAIN doc \cup {"created_at", "updated_at"} |->
                         IF f \in {"created_at", "updated_at"} THEN t ELSE doc[f]]>>, oid)

ServiceUnavailable == [status |-> 503, body |-> [detail |-> "Database not configured"]]

\* A CreateMetric body: the fields left out take their defaults.
MetricPayload(channel, date, leads, booked, revenue, cost) ==
    [channel |-> channel, date |-> date, leads_generated |-> leads, calls_handled |-> 0,
     conversations |-> 0, booked_jobs |-> booked, completed_jobs |-> 0,
     response_time_sec |-> 0, conversion_rate |-> <<0, 1>>, appt_set_rate |-> <<0, 1>>,
     no_show_rate |-> <<0, 1>>, aov |-> 0, revenue |-> revenue, cost |-> cost,
     roi |-> <<0, 1>>, csat |-> <<0, 1>>]

\* The CreateMetric bodies tried: channel is any string, the numbers any numbers.
MetricPayloads ==
    {MetricPayload("inbound", YmdToOrd(2024, 2, 29), 3, 1, 500, 100),
     MetricPayload("email", YmdToOrd(2024, 12, 31), 2, 1, 40, 10),
     MetricPayload("inbound", YmdToOrd(2025, 1, 1), 1, 0, 5, 0 - 6000)}

\* payload.model_dump() with doc["date"] = payload.date.isoformat()
MetricDoc(payload) == [payload EXCEPT !.date = IsoFormat(payload.date)]

\* POST /api/metrics
create_metric ==
    /\ Serving
    /\ db => writes < MaxWrites
    /\ \E t \in ClockReadings, payload \in MetricPayloads :
        /\ now' = t
        /\ req' = [op |-> "create_metric", payload |-> payload]
        /\ IF ~db
           THEN /\ resp' = ServiceUnavailable
                /\ UNCHANGED <<store, writes>>
           ELSE /\ metrics' = CreateDocument(metrics, MetricDoc(payload), nextId, t)
                /\ nextId' = nextId + 1
                /\ writes' = writes + 1
                /\ resp' = [status |-> 200, body |-> [id |-> ObjectIdStr(nextId)]]
                /\ UNCHANGED <<contacts, messages>>
    /\ UNCHANGED <<db, pc, locals>>

\* ------------------------------------------------------------ pipeline routes

\* d["_id"] = str(d["_id"])
StringifyId(d) == [d EXCEPT !._id = ObjectIdStr(d._id)]

ContactsFallback ==
    <<[_id |-> <<"1">>, name |-> "Alex Johnson", phone |-> "+1 (555) 201-3344",
       channel |-> "inbound", stage |-> "new"],
      [_id |-> <<"2">>, name |-> "Brianna Lee", phone |-> "+1 (555) 448-9920",
       channel |-> "outbound", stage |-> "engaged"]>>

\* The stage query parameters tried.
StageParams == {None, Some("new"), Some("lost")}

\* [d for d in coll if d["stage"] == stage] if stage else coll
StageQuery(coll, stage) ==
    IF Truthy(stage) THEN Find(coll, "stage", stage[1]) ELSE coll

\* GET /api/contacts?stage=
list_contacts ==
    /\ Serving
    /\ \E stage \in StageParams :
        /\ req' = [op |-> "list_contacts", stage |-> stage]
        /\ resp' = IF ~db
                   THEN [status |-> 200, body |-> StageQuery(ContactsFallback, stage)]
                   ELSE LET docs == StageQuery(contacts, stage)
                        IN  [status |-> 200,
                             body |-> [k \in DOMAIN docs |-> StringifyId(docs[k])]]
    /\ UNCHANGED <<db, store, now, writes, pc, locals>>

\* The CreateContact body tried: channel and stage are validated against their
\* Literal types before the handler runs, stage defaults to "new".
ContactPayloads ==
    {[name |-> "Gus Roy", phone |-> "+1 (555) 010-0002", channel |-> "outbound", stage |-> "booked"]}

\* POST /api/contacts
create_contact ==
    /\ Serving
    /\ db => writes < MaxWrites
    /\ \E t \in ClockReadings, payload \in ContactPayloads :
        /\ now' = t
        /\ req' = [op |-> "create_contact", payload |-> payload]
        /\ IF ~db
           THEN /\ resp' = ServiceUnavailable
                /\ UNCHANGED <<store, writes>>
           ELSE /\ contacts' = CreateDocument(contacts, payload, nextId, t)
                /\ nextId' = nextId + 1
                /\ writes' = writes + 1
                /\ resp' = [status |-> 200, body |-> [id |-> ObjectIdStr(nextId)]]
                /\ UNCHANGED <<metrics, messages>>
    /\ UNCHANGED <<db, pc, locals>>

InvalidContactId == [status |-> 400, body |-> [detail |-> "Invalid contact id"]]
ContactNotFound == [status |-> 404, body |-> [detail |-> "Contact not found"]]

\* The documents of coll whose _id is oid.
Matching(coll, oid) == {k \in DOMAIN coll : coll[k]._id = oid}

\* collection.find_one({"_id": oid}): the position of the first match, 0 for None.
FindOne(coll, oid) ==
    IF Matching(coll, oid) = {} THEN 0
    ELSE CHOOSE k \in Matching(coll, oid) : \A j \in Matching(coll, oid) : k <= j

\* update_many with an empty filter: every contact is patched.
UpdateOne_Every(coll, oid, stage, t) ==
    [k \in DOMAIN coll |-> [f \in DOMAIN coll[k] \cup {"stage", "updated_at"} |->
                               IF f = "stage" THEN stage
                               ELSE IF f = "updated_at" THEN t
                               ELSE coll[k][f]]]

\* collection.update_one({"_id": oid}, {"$set": fields}): the first match is patched.
UpdateOne(coll, oid, stage, t) ==
    LET k == FindOne(coll, oid)
    IN  IF k = 0 THEN coll
        ELSE [coll EXCEPT ![k] = [f \in DOMAIN coll[k] \cup {"stage", "updated_at"} |->
                                     IF f = "stage" THEN stage
                                     ELSE IF f = "updated_at" THEN t
                                     ELSE coll[k][f]]]

\* A handler that never looks at res.matched_count.
MatchedCount_Ignored(coll, oid) == 1

\* res.matched_count
MatchedCount(coll, oid) == IF FindOne(coll, oid) = 0 THEN 0 ELSE 1

UpperChar(c) ==
    CASE c = "a" -> "A" [] c = "b" -> "B" [] c = "c" -> "C" [] c = "d" -> "D"
      [] c = "e" -> "E" [] c = "f" -> "F" [] OTHER -> c

\* str.upper()
Upper(s) == [k \in DOMAIN s |-> UpperChar(s[k])]

\* The contact_id path parameters tried: the first and the last contact, the first
\* one in upper case, the id of a metric document (well-formed, no contact), a string
\* that is too short and a 24-character string that is not hexadecimal.
ContactIdParams ==
    (IF contacts = <<>> THEN {}
     ELSE {ObjectIdStr(contacts[1]._id), Upper(ObjectIdStr(contacts[1]._id)),
           ObjectIdStr(contacts[Len(contacts)]._id)})
    \cup {ObjectIdStr(10), <<"a", "b", "c">>, [k \in 1..24 |-> "z"]}

\* The contact_id path parameters tried by PATCH: the first contact, the id of a
\* metric document and a string that is too short.
UpdateIdParams ==
    (IF contacts = <<>> THEN {} ELSE {ObjectIdStr(contacts[1]._id)})
    \cup {ObjectIdStr(10), <<"a", "b", "c">>}

\* PATCH /api/contacts/{contact_id}/stage
update_contact_stage ==
    /\ Serving
    /\ db => writes < MaxWrites
    /\ \E t \in ClockReadings, contact_id \in UpdateIdParams, stage \in Stages :
        \* datetime.now() is read once the id has parsed
        /\ now' = IF db /\ ObjectId(contact_id) # InvalidId THEN t ELSE now
        /\ req' = [op |-> "update_contact_stage", contact_id |-> contact_id, stage |-> stage]
        /\ IF ~db
           THEN /\ resp' = ServiceUnavailable
                /\ UNCHANGED <<store, writes>>
           ELSE LET oid == ObjectId(contact_id)
                IN  IF oid = InvalidId
                    THEN /\ resp' = InvalidContactId
                         /\ UNCHANGED <<store, writes>>
                    ELSE /\ contacts' = UpdateOne(contacts, oid, stage, t)
                         /\ writes' = writes + MatchedCount(contacts, oid)
                         /\ resp' = IF MatchedCount(contacts, oid) = 0
                                    THEN ContactNotFound
                                    ELSE [status |-> 200, body |-> [ok |-> TRUE]]
                         /\ UNCHANGED <<metrics, messages, nextId>>
    /\ UNCHANGED <<db, pc, locals>>

ConversationFallback(contact_id, t) ==
    [contact |-> [_id |-> contact_id, name |-> "Demo Contact", phone |-> "+1 (555) 000-0000"],
     messages |->
        <<[type |-> "sms", direction |-> "inbound", timestamp |-> DatetimeIso(t),
           text |-> "Hi there"],
          [type |-> "call", direction |-> "outbound", timestamp |-> DatetimeIso(t),
           recording_url |-> RecordingUrl, duration_sec |-> 90]>>]

\* db["conversationmessage"].find({"contact_id": contact_id}).sort("timestamp", 1)
ConversationQuery(coll, contact_id) == SortByTimestamp(Find(coll, "contact_id", contact_id))

\* m["_id"] = str(m["_id"]); m["timestamp"] = m["timestamp"].isoformat()
MessageOut(m) == [m EXCEPT !._id = ObjectIdStr(m._id), !.timestamp = DatetimeIso(m.timestamp)]

ContactOut(c) ==
    [_id |-> ObjectIdStr(c._id), name |-> c.name, phone |-> c.phone,
     channel |-> c.channel, stage |-> c.stage]

\* GET /api/contacts/{contact_id}/conversation
get_conversation ==
    /\ Serving
    /\ \E t \in ClockReadings, contact_id \in ContactIdParams :
        \* only the fallback reads the clock
        /\ db => t = now
        /\ now' = t
        /\ req' = [op |-> "get_conversation", contact_id |-> contact_id]
        /\ resp' = IF ~db
                   THEN [status |-> 200, body |-> ConversationFallback(contact_id, t)]
                   ELSE LET oid == ObjectId(contact_id)
                            k == FindOne(contacts, oid)
                            msgs == ConversationQuery(messages, contact_id)
                        IN  IF oid = InvalidId THEN InvalidContactId
                            ELSE IF k = 0 THEN ContactNotFound
                            ELSE [status |-> 200,
                                  body |-> [contact |-> ContactOut(contacts[k]),
                                            messages |-> [j \in DOMAIN msgs |-> MessageOut(msgs[j])]]]
    /\ UNCHANGED <<db, store, writes, pc, locals>>

Init ==
    /\ db \in BOOLEAN
    /\ metrics = <<>>
    /\ contacts = <<>>
    /\ messages = <<>>
    /\ nextId = 10
    /\ now = StartNow
    /\ writes = 0
    /\ pc = [p \in Procs |-> "down"]
    /\ locals = [p \in Procs |-> NoLocals]
    /\ req = NoRequest
    /\ resp = NoResponse

Next ==
    \/ Startup
    \/ get_summary
    \/ get_timeseries
    \/ create_metric
    \/ list_contacts
    \/ create_contact
    \/ update_contact_stage
    \/ get_conversation

Spec == Init /\ [][Next]_vars

\* ------------------------------------------------------------ concurrent cold starts

\* seed_sample_data() of process instance p, one store round trip (or one insert
\* loop) at a time; other instances run between the steps.

\* if db is None: return; if metrics.count_documents({}) == 0:
SeedCountMetrics(p) ==
    /\ pc[p] = "down"
    /\ pc' = [pc EXCEPT ![p] = IF ~db THEN "serving"
                               ELSE IF Len(metrics) = 0 THEN "insert_metrics"
                               ELSE "count_contacts"]
    /\ locals' = [locals EXCEPT ![p].saw_no_metrics = db /\ Len(metrics) = 0]
    /\ UNCHANGED <<db, store, now, writes, req, resp>>

\* today = date.today(); the loop of metrics.insert_one(doc)
SeedInsertMetrics(p) ==
    /\ pc[p] = "insert_metrics"
    /\ \E t \in ClockReadings :
        /\ now' = t
        /\ metrics' = InsertAll(metrics, SeedMetricDocs(Today(t)), nextId)
        /\ nextId' = nextId + 2 * SEED_DAYS
    /\ pc' = [pc EXCEPT ![p] = "count_contacts"]
    /\ UNCHANGED <<db, contacts, messages, writes, locals, req, resp>>

\* if contacts.count_documents({}) == 0:
SeedCountContacts(p) ==
    /\ pc[p] = "count_contacts"
    /\ pc' = [pc EXCEPT ![p] = IF Len(contacts) = 0 THEN "insert_contacts" ELSE "serving"]
    /\ locals' = [locals EXCEPT ![p].saw_no_contacts = Len(contacts) = 0]
    /\ UNCHANGED <<db, store, now, writes, req, resp>>

\* now = datetime.now(timezone.utc); the loop of contacts.insert_one(dc)
SeedInsertContacts(p) ==
    /\ pc[p] = "insert_contacts"
    /\ \E t \in ClockReadings :
        /\ now' = t
        /\ contacts' = InsertAll(contacts, SeedContactDocs(t), nextId)
        /\ nextId' = nextId + Len(demo_contacts)
        /\ locals' = [locals EXCEPT
                        ![p].now = t,
                        ![p].inserted_ids =
                            [k \in DOMAIN demo_contacts |-> ObjectIdStr(nextId + k - 1)]]
    /\ pc' = [pc EXCEPT ![p] = "insert_messages"]
    /\ UNCHANGED <<db, metrics, messages, writes, req, resp>>

\* the loop of conv.insert_one(m)
SeedInsertMessages(p) ==
    /\ pc[p] = "insert_messages"
    /\ messages' = InsertAll(messages, SeedMessageDocs(locals[p].now, locals[p].inserted_ids), nextId)
    /\ nextId' = nextId + 5
    /\ pc' = [pc EXCEPT ![p] = "serving"]
    /\ UNCHANGED <<db, metrics, contacts, now, writes, locals, req, resp>>

ConcNext ==
    \E p \in Procs :
        \/ SeedCountMetrics(p)
        \/ SeedInsertMetrics(p)
        \/ SeedCountContacts(p)
        \/ SeedInsertContacts(p)
        \/ SeedInsertMessages(p)

ConcSpec == Init /\ [][ConcNext]_vars

\* ------------------------------------------------------------ properties

DigitValue(c) == CharCode(c) - 48

RECURSIVE ParseDigits(_)
ParseDigits(s) ==
    IF s = <<>> THEN 0
    ELSE 10 * ParseDigits(SubSeq(s, 1, Len(s) - 1)) + DigitValue(s[Len(s)])

\* The day an ISO date string names (date.fromisoformat(s).toordinal()).
IsoParse(s) ==
    YmdToOrd(ParseDigits(SubSeq(s, 1, 4)), ParseDigits(SubSeq(s, 6, 7)),
             ParseDigits(SubSeq(s, 9, 10)))

HexChars ==
    {"0", "1", "2", "3", "4", "5", "6", "7", "8", "9", "a", "b", "c", "d", "e", "f",
     "A", "B", "C", "D", "E", "F"}

\* A well-formed document key: 24 hexadecimal digits.
WellFormedId(s) == Len(s) = 24 /\ \A k \in 1..24 : s[k] \in HexChars

\* The contact a well-formed key names, if any.
ContactsNamed(s) == {k \in DOMAIN contacts : ObjectIdStr(contacts[k]._id) = [j \in DOMAIN s |->
                        IF s[j] \in {"A", "B", "C", "D", "E", "F"}
                        THEN HexChar(CharCode(s[j]) - 55) ELSE s[j]]}

\* Sum of field f over the documents of coll in channel ch (every document when all).
Total(coll, f, ch, all) ==
    SumSeq([k \in DOMAIN coll |-> IF all \/ coll[k].channel = ch THEN coll[k][f] ELSE 0])

\* C1: the totals block of GET /api/metrics/summary is the component-wise sum of
\* the inbound and outbound blocks on leads, booked and revenue.
C1_TotalsAreChannelSums ==
    (req.op = "get_summary" /\ resp.status = 200) =>
        /\ resp.body.totals.leads = resp.body.inbound.leads + resp.body.outbound.leads
        /\ resp.body.totals.booked = resp.body.inbound.booked + resp.body.outbound.booked
        /\ resp.body.totals.revenue = resp.body.inbound.revenue + resp.body.outbound.revenue

StoreEmpty == metrics = <<>> /\ contacts = <<>> /\ messages = <<>>

\* C2: without a store (db is None) every write request is answered 503 and
\* nothing is stored, every read request is answered 200 with its fallback
\* payload, and seeding stores nothing.
C2_Unavailable ==
    ~db =>
        /\ StoreEmpty /\ nextId = 10 /\ writes = 0
        /\ req.op \in {"create_metric", "create_contact", "update_contact_stage"} =>
               resp.status = 503 /\ DOMAIN resp.body = {"detail"}
        /\ req.op = "get_summary" =>
               /\ resp.status = 200
               /\ resp.body.totals = [leads |-> 320, booked |-> 180, revenue |-> 64000, roi |-> <<31, 10>>]
               /\ resp.body.inbound = [leads |-> 170, booked |-> 100, revenue |-> 34000, roi |-> <<7, 2>>]
               /\ resp.body.outbound = [leads |-> 150, booked |-> 80, revenue |-> 30000, roi |-> <<27, 10>>]
        /\ req.op = "get_timeseries" =>
               /\ resp.status = 200
               /\ resp.body.data =
                    <<[date |-> <<"2", "0", "2", "4", "-", "0", "1", "-", "0", "1">>,
                       leads |-> 10, booked |-> 4, revenue |-> 1600],
                      [date |-> <<"2", "0", "2", "4", "-", "0", "1", "-", "0", "2">>,
                       leads |-> 12, booked |-> 6, revenue |-> 2100]>>
        /\ req.op = "list_contacts" =>
               /\ resp.status = 200
               /\ [k \in DOMAIN resp.body |-> resp.body[k].name] =
                    (IF req.stage = None THEN <<"Alex Johnson", "Brianna Lee">>
                     ELSE IF req.stage = Some("new") THEN <<"Alex Johnson">>
                     ELSE IF req.stage = Some("engaged") THEN <<"Brianna Lee">>
                     ELSE <<>>)
        /\ req.op = "get_conversation" =>
               /\ resp.status = 200
               /\ resp.body.contact = [_id |-> req.contact_id, name |-> "Demo Contact",
                                       phone |-> "+1 (555) 000-0000"]
               /\ [k \in DOMAIN resp.body.messages |-> resp.body.messages[k].type] = <<"sms", "call">>

C2_Witness ==
    ~db /\ pc[1] = "serving" /\ req.op = "update_contact_stage" /\ resp.status = 503 /\ StoreEmpty

\* C3: with a store, PATCH /api/contacts/{id}/stage answers 400 for a malformed
\* id and 404 for a well-formed id that names no contact, and modifies no contact
\* in either case.
C3_UpdateStageErrors ==
    [][(db /\ req'.op = "update_contact_stage") =>
          /\ ~WellFormedId(req'.contact_id) => resp'.status = 400 /\ contacts' = contacts
          /\ (WellFormedId(req'.contact_id) /\ ContactsNamed(req'.contact_id) = {}) =>
                 resp'.status = 404 /\ contacts' = contacts
          /\ resp'.status \in {200, 400, 404}]_vars

C3_Witness ==
    /\ db /\ req.op = "update_contact_stage" /\ resp.status = 404
    /\ WellFormedId(req.contact_id) /\ Len(contacts) > 0

\* One metric document per (channel, day) over the 14 days ending on day last.
OnePerChannelAndDay(last) ==
    \A c \in {"inbound", "outbound"}, i \in 0..13 :
        Cardinality({k \in DOMAIN metrics :
                        metrics[k].channel = c /\ metrics[k].date = IsoFormat(last - i)}) = 1

\* C4: from an empty store, after the startup seed and any number of further
\* seed runs (restarts, the one in get_summary) and no other write, the store
\* holds 28 metric documents, one per (channel, day) over the 14 days ending on
\* the day of the seed, 5 contacts and 5 messages.
C4_SeedOnce ==
    (db /\ pc[1] = "serving" /\ writes = 0) =>
        /\ Len(metrics) = 28
        /\ \E last \in Today(StartNow)..Today(now) : OnePerChannelAndDay(last)
        /\ Len(contacts) = 5
        /\ {contacts[k].stage : k \in DOMAIN contacts} = Stages
        /\ Len(messages) = 5
        /\ Cardinality({k \in DOMAIN messages :
                           messages[k].contact_id = ObjectIdStr(contacts[1]._id)}) = 3
        /\ Cardinality({k \in DOMAIN messages :
                           messages[k].contact_id = ObjectIdStr(contacts[2]._id)}) = 2

\* A second import ran after the one that seeded.
C4_Witness ==
    /\ db /\ pc[1] = "serving" /\ writes = 0 /\ req.op = "startup"
    /\ Len(contacts) = 5 /\ contacts[1].created_at < now

Seeders == {p \in Procs : locals[p].saw_no_metrics /\ pc[p] \notin {"down", "insert_metrics"}}
ContactSeeders ==
    {p \in Procs : locals[p].saw_no_contacts /\ pc[p] \notin {"down", "count_contacts", "insert_contacts"}}

DuplicateMetrics ==
    \E j, k \in DOMAIN metrics :
        j < k /\ metrics[j].channel = metrics[k].channel /\ metrics[j].date = metrics[k].date

\* C5: the seed guard is not atomic. Every instance that saw the metric (contact)
\* collection empty inserts its 28 metrics (5 contacts), also when another
\* instance has inserted in between, so two such instances leave duplicate rows.
C5_SeedRace ==
    /\ Len(metrics) = 28 * Cardinality(Seeders)
    /\ Len(contacts) = 5 * Cardinality(ContactSeeders)
    /\ Cardinality(Seeders) >= 2 => DuplicateMetrics

C5_Witness ==
    /\ \A p \in Procs : pc[p] = "serving"
    /\ Cardinality(Seeders) >= 2 /\ Cardinality(ContactSeeders) >= 2
    /\ DuplicateMetrics /\ Len(metrics) > 28 /\ Len(contacts) > 5

\* The stored message a returned message came from.
StoredMessage(out) == CHOOSE k \in DOMAIN messages : ObjectIdStr(messages[k]._id) = out._id

Entry(d) == [date |-> d.date, leads |-> d.leads_generated, booked |-> d.booked_jobs,
             revenue |-> d.revenue]

\* C7: with a store, the data of GET /api/metrics/timeseries is sorted
\* non-decreasing by date whatever the storage order, and holds one entry per
\* stored record of the requested channel (per stored record without a channel)
\* and no other.
C7_Timeseries ==
    (db /\ req.op = "get_timeseries") =>
        LET data == resp.body.data
            all == req.channel = None \/ req.channel = Some("")
            mine == {k \in DOMAIN metrics : all \/ metrics[k].channel = req.channel[1]}
        IN  /\ resp.status = 200
            /\ \A j \in 1..(Len(data) - 1) : IsoParse(data[j].date) <= IsoParse(data[j + 1].date)
            /\ Len(data) = Cardinality(mine)
            /\ \A k \in mine :
                   Cardinality({j \in DOMAIN data : data[j] = Entry(metrics[k])})
                       = Cardinality({m \in mine : Entry(metrics[m]) = Entry(metrics[k])})

\* The records are stored out of date order and all of them are returned.
C7_Witness ==
    /\ db /\ req.op = "get_timeseries" /\ req.channel = None
    /\ Len(resp.body.data) > 28
    /\ \E j, k \in DOMAIN metrics : j < k /\ IsoParse(metrics[k].date) < IsoParse(metrics[j].date)

\* C8: in each block of the summary, roi is 0 when the total cost of the block's
\* records is 0 and (total revenue - total cost) / total cost otherwise.
C8_RoiRecomputed ==
    (db /\ req.op = "get_summary") =>
        \A b \in {"totals", "inbound", "outbound"} :
            LET cost == Total(metrics, "cost", b, b = "totals")
                revenue == Total(metrics, "revenue", b, b = "totals")
            IN  resp.body[b].roi = IF cost = 0 THEN <<0, 1>> ELSE Div(revenue - cost, cost)

\* What the formulas give in double arithmetic, by (i mod 5) + 1:
\* <<leads, conversations, booked, completed>>.
SeedTable(channel) ==
    IF channel = "inbound"
    THEN <<<<10, 6, 2, 1>>, <<11, 6, 2, 1>>, <<12, 7, 3, 2>>, <<13, 7, 3, 2>>, <<14, 8, 3, 2>>>>
    ELSE <<<<10, 4, 1, 0>>, <<12, 4, 1, 0>>, <<14, 5, 1, 0>>, <<16, 6, 2, 1>>, <<18, 7, 2, 1>>>>

RateInUnit(r) == 0 <= r[1] /\ r[1] <= r[2]

\* C9: the seeded record of day index i and channel follows the formulas; for
\* i = 0 it is leads 10, conversations 6, booked 2, completed 1, revenue 350,
\* cost 350, roi 0 (inbound) and leads 10, conversations 4, booked 1, completed 0,
\* revenue 0, cost 600, roi -1 (outbound); and every seeded record has
\* completed <= booked <= conversations <= leads and both rates in [0, 1].
C9_SeedDerivation ==
    (db /\ pc[1] = "serving") =>
        /\ Len(metrics) >= 28
        /\ \A k \in 1..28 :
            LET d == metrics[k]
                i == (k - 1) \div 2
                row == SeedTable(d.channel)[(i % 5) + 1]
            IN  /\ d.channel = Channels[((k - 1) % 2) + 1]
                /\ <<d.leads_generated, d.conversations, d.booked_jobs, d.completed_jobs>> = row
                /\ d.calls_handled = d.leads_generated + d.conversations
                /\ d.revenue = d.completed_jobs * (IF d.channel = "inbound" THEN 350 ELSE 420)
                /\ d.cost = d.leads_generated * (IF d.channel = "inbound" THEN 35 ELSE 60)
                /\ d.roi[1] * d.cost = (d.revenue - d.cost) * d.roi[2]
                /\ d.conversion_rate[1] * d.leads_generated = d.booked_jobs * d.conversion_rate[2]
                /\ d.appt_set_rate[1] * d.conversations = d.booked_jobs * d.appt_set_rate[2]
                /\ d.completed_jobs <= d.booked_jobs /\ d.booked_jobs <= d.conversations
                /\ d.conversations <= d.leads_generated
                /\ RateInUnit(d.conversion_rate) /\ RateInUnit(d.appt_set_rate)
                /\ IsoParse(d.date) = IsoParse(metrics[1].date) + i
        /\ metrics[1].revenue = 350 /\ metrics[1].cost = 350 /\ metrics[1].roi = <<0, 1>>
        /\ metrics[2].revenue = 0 /\ metrics[2].cost = 600 /\ metrics[2].roi = <<-1, 1>>

C9_Witness ==
    /\ db /\ pc[1] = "serving" /\ req.op = "startup"
    /\ Len(metrics) = 28 /\ metrics[1].leads_generated = 10 /\ metrics[28].leads_generated = 16

ContactIds(coll) == {coll[k]._id : k \in DOMAIN coll}

\* C10: every stored contact's stage is one of the five stages, no contact is
\* ever removed, and a successful stage update sets stage and updated_at of the
\* contact with the given id only: its other fields, every other contact, the
\* metrics and the messages stay as they were.
C10_StageFrame ==
    [][/\ \A k \in DOMAIN contacts' : contacts'[k].stage \in Stages
       /\ ContactIds(contacts) \subseteq ContactIds(contacts')
       /\ (req'.op = "update_contact_stage" /\ resp'.status = 200) =>
             /\ ContactsNamed(req'.contact_id) # {}
             /\ DOMAIN contacts' = DOMAIN contacts
             /\ \A k \in DOMAIN contacts :
                    contacts'[k] = IF k \in ContactsNamed(req'.contact_id)
                                   THEN [contacts[k] EXCEPT !.stage = req'.stage,
                                                            !.updated_at = now']
                                   ELSE contacts[k]
             /\ metrics' = metrics
             /\ messages' = messages]_vars

C10_Witness ==
    /\ db /\ req.op = "update_contact_stage" /\ resp.status = 200
    /\ Len(contacts) = 5
    /\ contacts[1].stage = "booked" /\ contacts[1].updated_at > contacts[1].created_at
====
